---- MODULE Spec2Model ----
(***************************************************************************)
(* HireLoop recruiting pipeline: the request handlers that move a          *)
(* candidate through its lifecycle.                                        *)
(*                                                                         *)
(* Two deployments serve the same /functions/v1 endpoints:                 *)
(*   impl = "edge": the Supabase edge functions (backend/functions/*.ts)   *)
(*           against the Postgres tables of backend/schema.sql.  Every     *)
(*           handler is async: each awaited query is one step, and steps   *)
(*           of concurrent requests interleave.                            *)
(*   impl = "mock": server.js, whose handlers are synchronous functions    *)
(*           over the in-memory `store`; one request is one step.          *)
(* Spec serves the lifecycle requests one at a time, SpecOutreach the      *)
(* drafting and sending of outreach, SpecConcurrent two edge requests at   *)
(* once, SpecDaemon and SpecDaemonLive the scheduled pipeline_daemon,     *)
(* SpecScreen resume screening, SpecCrash sends that are cut short,        *)
(* SpecFailing sends whose writes the storage refuses, SpecEnrich lead     *)
(* enrichment, SpecXray the sourcing search and SpecDaemonFaulty the       *)
(* daemon when its roles query may fail.                                   *)
(* The tables are the variables candidates, outreach, engagements, config  *)
(* and roles; reqs holds the requests in flight (their locals, position    *)
(* and response) and daemon the scheduled pipeline_daemon invocation.      *)
(***************************************************************************)
EXTENDS Naturals, Sequences, FiniteSets

VARIABLES impl, now, roles, candidates, outreach, engagements, config,
          reqs, daemon

vars == <<impl, now, roles, candidates, outreach, engagements, config,
          reqs, daemon>>

tables == <<roles, candidates, outreach, engagements, config>>

\* ------------------------------------------------------------------ bounds

\* Engagement rows written plus requests in flight.
MaxLog == 2
\* The clock stops here.
MaxTime == 1
\* Outreach rows written plus generate_outreach requests in flight.
MaxDrafts == 2
\* The consecutive failed sends after which a candidate is to be left alone.
MaxFailures == 2
\* The ceilings of one cycle, per role: outreach sends and sourcing calls.
SendCeiling == 1
SourcingCeiling == 1
\* The leads of one enrichment request.
MaxLeads == 2
\* The items of one search reply.
MaxItems == 3

\* ------------------------------------------------------------ value spaces

\* candidates.status, schema.sql line 69
Statuses == {"sourced", "contacted", "interested", "screened",
             "interviewing", "offered", "hired", "rejected"}

\* Candidate identifiers: two that can exist, one that never does, and the
\* absent (undefined) identifier of a malformed request.
CandPool == {1, 2}
GhostId == 9
NoId == 0
RequestIds == CandPool \cup {GhostId, NoId}

\* Event kinds a notification may carry: the five of engagements.event
\* (schema.sql line 90), one kind outside it, and the absent kind.
Missing == "undefined"
SchemaEvents == {"sent", "opened", "replied", "scheduled", "bounced"}
RequestEvents == {"opened", "replied", "bounced", "sent", "clicked", Missing}

\* The notifications that arrive: every kind for every identifier that is
\* present, and the three malformed shapes.
Notifications ==
  ((RequestIds \ {NoId}) \X (RequestEvents \ {Missing}))
    \cup {<<NoId, "replied">>, <<1, Missing>>, <<NoId, Missing>>}

\* The kinds ingest_webhook maps to a status.
MappedEvents == {"opened", "replied", "bounced"}

RoleIds == {1, 2, 3}
\* A role identifier no roles row has.
GhostRole == 8
Slots == {1, 2}
Null == 99

\* min_pipeline of the seeded demo role (the seed appended to send_sequence.ts)
SeedMinPipeline == 3

\* ------------------------------------------------------------ table helpers

Exists(c) == c \in DOMAIN candidates

StatusOf(c) == candidates[c].status

\* SetStatus without its where clause: every row gets the status.
SetStatusEveryRow(c, s) ==
  [x \in DOMAIN candidates |-> [candidates[x] EXCEPT !.status = s]]

\* update candidates set status = s where id = c  (no row: nothing happens)
SetStatus(c, s) ==
  IF Exists(c)
    THEN [candidates EXCEPT ![c] = [@ EXCEPT !.status = s]]
    ELSE candidates

\* InsertEngagement that writes over the newest row instead of appending.
InsertEngagementOverwriting(c, e) ==
  IF Exists(c)
    THEN IF engagements = <<>>
           THEN <<[candidate_id |-> c, event |-> e]>>
           ELSE [engagements EXCEPT ![Len(engagements)] = [candidate_id |-> c, event |-> e]]
    ELSE engagements

\* insert into engagements; candidate_id REFERENCES candidates(id), so the
\* insert of an unknown candidate fails and the (ignored) error changes nothing
InsertEngagement(c, e) ==
  IF Exists(c)
    THEN Append(engagements, [candidate_id |-> c, event |-> e])
    ELSE engagements

\* store.engagements.push: the in-memory array has no foreign key
PushEngagement(c, e) == Append(engagements, [candidate_id |-> c, event |-> e])

OutreachRowsOf(c) == {k \in 1..Len(outreach) : outreach[k].candidate_id = c}

\* .select('*').eq('candidate_id', c).maybeSingle(): the row when exactly one
\* matches; no row, or several (an error the handler drops), gives null (0)
MaybeSingleOutreach(c) ==
  IF Cardinality(OutreachRowsOf(c)) = 1
    THEN CHOOSE k \in OutreachRowsOf(c) : TRUE
    ELSE 0

\* select count(*) from candidates where role_id = r
CountByRole(r) == Cardinality({c \in DOMAIN candidates : candidates[c].role_id = r})

HasEvent(c, e) ==
  \E k \in 1..Len(engagements) :
    engagements[k].candidate_id = c /\ engagements[k].event = e

\* ------------------------------------------------------------ requests

IdleReq ==
  [op |-> "none", cand |-> NoId, role |-> NoId, event |-> Missing,
   resume |-> Missing, mode |-> "none", result |-> <<>>, pc |-> "idle",
   seen |-> "none", existing |-> 0, exstep |-> 0, newStatus |-> "none",
   resp |-> 0, updates |-> 0, clobbered |-> FALSE, late |-> FALSE,
   cut |-> "none", failures |-> 0, leads |-> 0, enriched |-> 0]

Free(i) == reqs[i].pc \in {"idle", "done"}
Busy(i) == ~Free(i)

\* Identifiers a request can carry: a candidate's, once it exists (identifiers
\* are random UUIDs, never known beforehand), the unknown one, or none.
Addressable(c) == Exists(c) \/ c \in {GhostId, NoId}

\* A new request takes the lowest free slot, while the log still has room for
\* the row it may write.
CanStart(i) ==
  /\ Free(i)
  /\ \A j \in Slots : j < i => Busy(j)
  /\ Len(engagements) + Cardinality({j \in Slots : Busy(j)}) < MaxLog

\* The handler returns: its locals are gone, the response stays.
Done(r, code) ==
  [r EXCEPT !.pc = "done", !.resp = code, !.seen = "none", !.existing = 0,
            !.exstep = 0, !.clobbered = FALSE]

\* MapEvent with the targets of 'opened' and 'replied' exchanged.
MapEventSwapped(e) ==
  IF e = "opened" THEN "interested"
  ELSE IF e = "replied" THEN "contacted"
  ELSE IF e = "bounced" THEN "rejected"
  ELSE "none"

\* ingest_webhook lines 33-36: the event -> status mapping
MapEvent(e) ==
  IF e = "opened" THEN "contacted"
  ELSE IF e = "replied" THEN "interested"
  ELSE IF e = "bounced" THEN "rejected"
  ELSE "none"

\* What each edge function answers, request by request.
\* send_sequence lines 32-37, 53
SendResponse(c) ==
  IF c = NoId THEN 400 ELSE IF ~Exists(c) THEN 404 ELSE 200

\* ingest_webhook lines 29-31, 42
IngestResponse(c, e) ==
  IF c = NoId \/ e = Missing THEN 400 ELSE 200

\* schedule_meeting lines 28, 35
ScheduleResponse(c) ==
  IF c = NoId THEN 400 ELSE 200

\* ------------------------------------------------------------ send_sequence (edge)

\* The sends for candidate c that failed one after the other, up to the
\* request last answered in slot i.
FailuresBefore(i, c) ==
  IF reqs[i].op = "send" /\ reqs[i].cand = c THEN reqs[i].failures ELSE 0

\* lines 25-34: parse, validate candidate_id
SendStart(i, c) ==
  /\ impl = "edge"
  /\ CanStart(i)
  /\ Addressable(c)
  /\ LET r == [IdleReq EXCEPT !.op = "send", !.cand = c,
                              !.late = HasEvent(c, "replied"),
                              !.failures = FailuresBefore(i, c)]
     IN reqs' = [reqs EXCEPT ![i] = IF c = NoId THEN Done(r, 400)
                                    ELSE [r EXCEPT !.pc = "s_cand"]]
  /\ UNCHANGED <<impl, now, tables, daemon>>

\* lines 36-37: fetch the candidate
SendFetchCandidate(i) ==
  /\ reqs[i].pc = "s_cand"
  /\ LET r == reqs[i]
     IN reqs' = [reqs EXCEPT ![i] =
                   IF Exists(r.cand)
                     THEN [r EXCEPT !.pc = "s_out", !.seen = StatusOf(r.cand)]
                     ELSE Done(r, 404)]
  /\ UNCHANGED <<impl, now, tables, daemon>>

\* line 43: fetch the outreach row
SendFetchOutreach(i) ==
  /\ reqs[i].pc = "s_out"
  /\ LET r == reqs[i]
         k == MaybeSingleOutreach(r.cand)
     IN reqs' = [reqs EXCEPT ![i] =
                   [r EXCEPT !.pc = "s_write", !.existing = k,
                             !.exstep = IF k = 0 THEN 0 ELSE outreach[k].step]]
  /\ UNCHANGED <<impl, now, tables, daemon>>

\* lines 44-48: insert the first row, or advance the fetched one
SendWriteOutreach(i) ==
  /\ reqs[i].pc = "s_write"
  /\ LET r == reqs[i]
     IN /\ outreach' =
             IF r.existing = 0
               THEN Append(outreach, [candidate_id |-> r.cand, step |-> 1,
                                      last_sent_at |-> now, next_send_at |-> Null])
               ELSE [outreach EXCEPT ![r.existing] =
                       [@ EXCEPT !.step = r.exstep + 1, !.last_sent_at = now]]
        /\ reqs' = [reqs EXCEPT ![i] = [r EXCEPT !.pc = "s_status"]]
  /\ UNCHANGED <<impl, now, roles, candidates, engagements, config, daemon>>

\* line 50: update({ status: 'contacted' }).eq('id', candidate_id)
SendUpdateStatus(i) ==
  /\ reqs[i].pc = "s_status"
  /\ LET r == reqs[i]
     IN /\ candidates' = SetStatus(r.cand, "contacted")
        /\ reqs' = [reqs EXCEPT ![i] =
                      [r EXCEPT !.pc = "s_event", !.updates = @ + 1,
                                !.clobbered = (StatusOf(r.cand) # r.seen)]]
  /\ UNCHANGED <<impl, now, roles, outreach, engagements, config, daemon>>

\* lines 52-53: record the 'sent' event, answer success
SendWriteEvent(i) ==
  /\ reqs[i].pc = "s_event"
  /\ engagements' = InsertEngagement(reqs[i].cand, "sent")
  /\ reqs' = [reqs EXCEPT ![i] = Done(reqs[i], 200)]
  /\ UNCHANGED <<impl, now, roles, candidates, outreach, config, daemon>>

\* The invocation is cancelled or crashes between two awaits: what it wrote
\* stays, nothing more is written, no response is sent.  (Cuts stop once a
\* record's step has passed MaxLog.)
SendCrash(i) ==
  /\ reqs[i].op = "send"
  /\ Busy(i)
  /\ \A k \in 1..Len(outreach) : outreach[k].step <= MaxLog
  /\ reqs' = [reqs EXCEPT ![i] = [Done(reqs[i], 0) EXCEPT !.cut = reqs[i].pc]]
  /\ UNCHANGED <<impl, now, tables, daemon>>

\* The writes of a send while the storage refuses them: supabase-js returns
\* the error, which lines 45-52 never look at, and the handler goes on.
\* lines 44-48
SendWriteOutreachRefused(i) ==
  /\ reqs[i].pc = "s_write"
  /\ reqs' = [reqs EXCEPT ![i] = [reqs[i] EXCEPT !.pc = "s_status"]]
  /\ UNCHANGED <<impl, now, tables, daemon>>

\* line 50
SendUpdateStatusRefused(i) ==
  /\ reqs[i].pc = "s_status"
  /\ reqs' = [reqs EXCEPT ![i] = [reqs[i] EXCEPT !.pc = "s_event"]]
  /\ UNCHANGED <<impl, now, tables, daemon>>

\* lines 52-53: the event is refused too; the answer is success all the same
SendWriteEventRefused(i) ==
  /\ reqs[i].pc = "s_event"
  /\ reqs' = [reqs EXCEPT ![i] =
                [Done(reqs[i], 200) EXCEPT
                   !.failures = IF @ < MaxFailures THEN @ + 1 ELSE @]]
  /\ UNCHANGED <<impl, now, tables, daemon>>

\* ------------------------------------------------------------ ingest_webhook (edge)

\* lines 19-36: parse, validate identifier and kind, map the kind to a status
IngestStart(i, c, e) ==
  /\ impl = "edge"
  /\ CanStart(i)
  /\ Addressable(c)
  /\ LET r == [IdleReq EXCEPT !.op = "ingest", !.cand = c, !.event = e]
     IN reqs' = [reqs EXCEPT ![i] =
                   IF c = NoId \/ e = Missing
                     THEN Done(r, 400)
                     ELSE [r EXCEPT !.pc = "i_event", !.newStatus = MapEvent(e)]]
  /\ UNCHANGED <<impl, now, tables, daemon>>

\* IngestWriteEvent that loses the engagement row.
IngestWriteEventDropped(i) ==
  /\ reqs[i].pc = "i_event"
  /\ LET r == reqs[i]
     IN reqs' = [reqs EXCEPT ![i] =
                   IF r.newStatus # "none"
                     THEN [r EXCEPT !.pc = "i_status"]
                     ELSE Done(r, 200)]
  /\ UNCHANGED <<impl, now, roles, candidates, outreach, engagements, config, daemon>>

\* line 38: insert the engagement row; lines 39, 42: nothing to update -> success
IngestWriteEvent(i) ==
  /\ reqs[i].pc = "i_event"
  /\ LET r == reqs[i]
     IN /\ engagements' = InsertEngagement(r.cand, r.event)
        /\ reqs' = [reqs EXCEPT ![i] =
                      IF r.newStatus # "none"
                        THEN [r EXCEPT !.pc = "i_status"]
                        ELSE Done(r, 200)]
  /\ UNCHANGED <<impl, now, roles, candidates, outreach, config, daemon>>

\* lines 39-42: update({ status: newStatus }).eq('id', candidateId), success
IngestUpdateStatus(i) ==
  /\ reqs[i].pc = "i_status"
  /\ LET r == reqs[i]
     IN /\ candidates' = SetStatus(r.cand, r.newStatus)
        /\ reqs' = [reqs EXCEPT ![i] = [Done(r, 200) EXCEPT !.updates = @ + 1]]
  /\ UNCHANGED <<impl, now, roles, outreach, engagements, config, daemon>>

\* ------------------------------------------------------------ schedule_meeting (edge)

\* lines 20-30: parse, validate candidate_id, build the meeting URL
ScheduleStart(i, c) ==
  /\ impl = "edge"
  /\ CanStart(i)
  /\ Addressable(c)
  /\ LET r == [IdleReq EXCEPT !.op = "schedule", !.cand = c]
     IN reqs' = [reqs EXCEPT ![i] = IF c = NoId THEN Done(r, 400)
                                    ELSE [r EXCEPT !.pc = "m_status"]]
  /\ UNCHANGED <<impl, now, tables, daemon>>

\* line 32: update({ status: 'interviewing' }).eq('id', candidateId)
ScheduleUpdateStatus(i) ==
  /\ reqs[i].pc = "m_status"
  /\ LET r == reqs[i]
     IN /\ candidates' = SetStatus(r.cand, "interviewing")
        /\ reqs' = [reqs EXCEPT ![i] = [r EXCEPT !.pc = "m_event", !.updates = @ + 1]]
  /\ UNCHANGED <<impl, now, roles, outreach, engagements, config, daemon>>

\* lines 34-35: record the 'scheduled' event, answer with the URL
ScheduleWriteEvent(i) ==
  /\ reqs[i].pc = "m_event"
  /\ engagements' = InsertEngagement(reqs[i].cand, "scheduled")
  /\ reqs' = [reqs EXCEPT ![i] = Done(reqs[i], 200)]
  /\ UNCHANGED <<impl, now, roles, candidates, outreach, config, daemon>>

\* ------------------------------------------------------------ generate_outreach (edge)

\* A new generate_outreach request takes the lowest free slot, while the
\* outreach table still has room for the row it may write.
CanDraft(i) ==
  /\ Free(i)
  /\ \A j \in Slots : j < i => Busy(j)
  /\ Len(outreach) + Cardinality({j \in Slots : Busy(j) /\ reqs[j].op = "generate"})
       < MaxDrafts

\* The row generate_outreach inserts (lines 89-98) and server.js pushes
\* (line 163): step 1, never sent, nothing scheduled.
DraftRow(c) ==
  [candidate_id |-> c, step |-> 1, last_sent_at |-> Null, next_send_at |-> Null]

\* lines 62-71: parse, validate role_id and candidate_id
GenerateStart(i, c, r) ==
  /\ impl = "edge"
  /\ CanDraft(i)
  /\ Addressable(c)
  /\ LET q == [IdleReq EXCEPT !.op = "generate", !.cand = c, !.role = r]
     IN reqs' = [reqs EXCEPT ![i] = IF r = NoId \/ c = NoId THEN Done(q, 400)
                                    ELSE [q EXCEPT !.pc = "g_fetch"]]
  /\ UNCHANGED <<impl, now, tables, daemon>>

\* lines 73-77: fetch the role and the candidate
GenerateFetch(i) ==
  /\ reqs[i].pc = "g_fetch"
  /\ LET q == reqs[i]
     IN reqs' = [reqs EXCEPT ![i] =
                   IF q.role \in DOMAIN roles /\ Exists(q.cand)
                     THEN [q EXCEPT !.pc = "g_write"]
                     ELSE Done(q, 404)]
  /\ UNCHANGED <<impl, now, tables, daemon>>

\* lines 78-99: draft the message, insert an outreach row, answer with the draft
GenerateWriteOutreach(i) ==
  /\ reqs[i].pc = "g_write"
  /\ outreach' = IF Exists(reqs[i].cand)
                   THEN Append(outreach, DraftRow(reqs[i].cand))
                   ELSE outreach
  /\ reqs' = [reqs EXCEPT ![i] = Done(reqs[i], 200)]
  /\ UNCHANGED <<impl, now, roles, candidates, engagements, config, daemon>>

\* ------------------------------------------------------------ server.js handlers

\* handleGenerateOutreach, lines 158-165
handleGenerateOutreach(c) ==
  /\ impl = "mock"
  /\ Addressable(c)
  /\ Len(outreach) < MaxDrafts
  /\ outreach' = Append(outreach, DraftRow(c))
  /\ reqs' = [reqs EXCEPT ![1] =
                [IdleReq EXCEPT !.op = "generate", !.cand = c,
                                !.pc = "done", !.resp = 200]]
  /\ UNCHANGED <<impl, now, roles, candidates, engagements, config, daemon>>

MockCanStart(c) ==
  /\ impl = "mock"
  /\ Addressable(c)
  /\ Len(engagements) < MaxLog

\* handleSendSequence, lines 168-173
handleSendSequence(c) ==
  /\ MockCanStart(c)
  /\ candidates' = SetStatus(c, "contacted")
  /\ engagements' = PushEngagement(c, "sent")
  /\ reqs' = [reqs EXCEPT ![1] =
                [IdleReq EXCEPT !.op = "send", !.cand = c,
                                !.late = HasEvent(c, "replied"),
                                !.updates = IF Exists(c) THEN 1 ELSE 0,
                                !.pc = "done", !.resp = 200]]
  /\ UNCHANGED <<impl, now, roles, outreach, config, daemon>>

\* handleIngestWebhook, lines 176-185
handleIngestWebhook(c, e) ==
  /\ MockCanStart(c)
  /\ candidates' = IF MapEvent(e) # "none" THEN SetStatus(c, MapEvent(e)) ELSE candidates
  /\ engagements' = PushEngagement(c, e)
  /\ reqs' = [reqs EXCEPT ![1] =
                [IdleReq EXCEPT !.op = "ingest", !.cand = c, !.event = e,
                                !.newStatus = MapEvent(e),
                                !.updates = IF Exists(c) /\ MapEvent(e) # "none" THEN 1 ELSE 0,
                                !.pc = "done", !.resp = 200]]
  /\ UNCHANGED <<impl, now, roles, outreach, config, daemon>>

\* handleScheduleMeeting, lines 188-194
handleScheduleMeeting(c) ==
  /\ MockCanStart(c)
  /\ candidates' = SetStatus(c, "interviewing")
  /\ engagements' = PushEngagement(c, "scheduled")
  /\ reqs' = [reqs EXCEPT ![1] =
                [IdleReq EXCEPT !.op = "schedule", !.cand = c,
                                !.updates = IF Exists(c) THEN 1 ELSE 0,
                                !.pc = "done", !.resp = 200]]
  /\ UNCHANGED <<impl, now, roles, outreach, config, daemon>>

\* uuid(): an identifier no row has yet
FreshIds == CandPool \ DOMAIN candidates

\* The identifiers of n new rows.
FreshN(n) == {x \in FreshIds : Cardinality({y \in FreshIds : y < x}) < n}

\* A request without a leads array.
NoLeads == Null

\* NewCandidates that replaces the table by the new rows.
NewCandidatesReplacing(S, r, s) ==
  [x \in S |-> [role_id |-> r, status |-> s]]

\* One new row per identifier of S, owned by role r, in status s.
NewCandidates(S, r, s) ==
  [x \in DOMAIN candidates \cup S |->
     IF x \in S THEN [role_id |-> r, status |-> s] ELSE candidates[x]]

\* handleEnrich, lines 133-155, for a request of n leads: one push per lead,
\* whatever role_id is.  Without a leads array body.leads.map throws (line
\* 134) before anything is pushed, and no response is written.
handleEnrich(r, n) ==
  /\ impl = "mock"
  /\ n # NoLeads => n <= Cardinality(FreshIds)
  /\ candidates' = IF n = NoLeads THEN candidates
                   ELSE NewCandidates(FreshN(n), r, "sourced")
  /\ reqs' = [reqs EXCEPT ![1] =
                [IdleReq EXCEPT !.op = "enrich", !.role = r, !.leads = n,
                                !.enriched = IF n = NoLeads THEN 0 ELSE n,
                                !.mode = "mock", !.pc = "done",
                                !.resp = IF n = NoLeads THEN 0 ELSE 200]]
  /\ UNCHANGED <<impl, now, roles, outreach, engagements, config, daemon>>

\* The row screening writes: a screened candidate with its four scores.
ScreenedCandidate(c, r, result) ==
  [x \in DOMAIN candidates \cup {c} |->
     IF x = c THEN [role_id |-> r, status |-> "screened", scores |-> result]
     ELSE candidates[x]]

\* Math.floor(Math.random() * 5) + 1 lies in 1..5, Math.floor(Math.random() *
\* 100) in 0..99: the draws taken are the ends of each range.
Rands == {1, 5}
ServerFits == {0, 99}

\* handleScreenResume lines 97-106: three random scores and a random fit
ServerScreens ==
  {[culture |-> c, technical |-> t, experience |-> e, fit |-> f] :
     c \in Rands, t \in Rands, e \in Rands, f \in ServerFits}

\* handleScreenResume, lines 96-120; the response is kept in slot i
handleScreenResume(i, r, cv, result) ==
  /\ impl = "mock"
  /\ FreshIds # {}
  /\ LET c == CHOOSE x \in FreshIds : \A y \in FreshIds : x <= y
     IN candidates' = ScreenedCandidate(c, r, result)
  /\ reqs' = [reqs EXCEPT ![i] =
                [IdleReq EXCEPT !.op = "screen", !.role = r, !.resume = cv,
                                !.mode = "mock", !.result = result,
                                !.pc = "done", !.resp = 200]]
  /\ UNCHANGED <<impl, now, roles, outreach, engagements, config, daemon>>

\* ------------------------------------------------------------ screen_resume (edge)

Min(a, b) == IF a <= b THEN a ELSE b

\* Math.floor(Math.random() * 20) lies in 0..19: its ends.
Noises == {0, 19}

\* mockScreen, lines 68-83
mockScreen(culture, technical, experience, noise) ==
  [culture |-> culture, technical |-> technical, experience |-> experience,
   fit |-> Min(100, culture * 20 + technical * 15 + experience * 15 + noise)]

MockScreens ==
  {mockScreen(c, t, e, n) : c \in Rands, t \in Rands, e \in Rands, n \in Noises}

\* callOpenAI lines 59-65: whatever JSON the model replied, parsed and
\* returned as it is: a reply within the ranges asked for, and replies with
\* one score outside them.
Replies ==
  { [culture |-> 3, technical |-> 4, experience |-> 2, fit |-> 60],
    [culture |-> 0, technical |-> 4, experience |-> 2, fit |-> 60],
    [culture |-> 3, technical |-> 4, experience |-> 6, fit |-> 60],
    [culture |-> 3, technical |-> 4, experience |-> 2, fit |-> 101] }

Resumes == {"cv1", "cv2"}

\* lines 86-97: parse, validate role_id and resume_text
ScreenStart(i, r, cv) ==
  /\ impl = "edge"
  /\ Free(i)
  /\ \A j \in Slots : j < i => Busy(j)
  /\ Cardinality(FreshIds) > Cardinality({j \in Slots : Busy(j) /\ reqs[j].op = "screen"})
  /\ LET q == [IdleReq EXCEPT !.op = "screen", !.role = r, !.resume = cv]
     IN reqs' = [reqs EXCEPT ![i] = IF r = NoId \/ cv = Missing THEN Done(q, 400)
                                    ELSE [q EXCEPT !.pc = "c_score"]]
  /\ UNCHANGED <<impl, now, tables, daemon>>

\* lines 98-107: mockScreen() under the mock flag or without a key, else
\* callOpenAI, whose failure is answered with 500
ScreenScore(i, mode, result, failed) ==
  /\ reqs[i].pc = "c_score"
  /\ \/ mode = "mock" /\ result \in MockScreens /\ ~failed
     \/ mode = "live" /\ result \in Replies
  /\ reqs' = [reqs EXCEPT ![i] =
                IF failed
                  THEN Done([reqs[i] EXCEPT !.mode = mode], 500)
                  ELSE [reqs[i] EXCEPT !.pc = "c_insert", !.mode = mode,
                                       !.result = result]]
  /\ UNCHANGED <<impl, now, tables, daemon>>

\* lines 109-122: insert the candidate row (role_id REFERENCES roles(id): the
\* row of an unknown role is refused and the error dropped), answer the scores
ScreenInsert(i) ==
  /\ reqs[i].pc = "c_insert"
  /\ FreshIds # {}
  /\ LET c == CHOOSE x \in FreshIds : \A y \in FreshIds : x <= y
     IN candidates' = IF reqs[i].role \in DOMAIN roles
                        THEN ScreenedCandidate(c, reqs[i].role, reqs[i].result)
                        ELSE candidates
  /\ reqs' = [reqs EXCEPT ![i] = Done(reqs[i], 200)]
  /\ UNCHANGED <<impl, now, roles, outreach, engagements, config, daemon>>

\* ------------------------------------------------------------ apollo_enrich (edge)

\* lines 59-68: parse, validate role_id and the leads array
EnrichStart(i, r, n) ==
  /\ impl = "edge"
  /\ Free(i)
  /\ \A j \in Slots : j < i => Busy(j)
  /\ LET q == [IdleReq EXCEPT !.op = "enrich", !.role = r, !.leads = n]
     IN reqs' = [reqs EXCEPT ![i] = IF r = NoId \/ n = NoLeads THEN Done(q, 400)
                                    ELSE [q EXCEPT !.pc = "e_call"]]
  /\ UNCHANGED <<impl, now, tables, daemon>>

\* lines 69-78: mockEnrich() under the mock flag or without a key, which maps
\* every lead to one enriched lead; else callApollo, which returns the leads
\* of the reply, however many, and whose failure is answered with 500
EnrichCall(i, mode, m, failed) ==
  /\ reqs[i].pc = "e_call"
  /\ \/ mode = "mock" /\ m = reqs[i].leads /\ ~failed
     \/ mode = "live"
  /\ reqs' = [reqs EXCEPT ![i] =
                IF failed
                  THEN Done([reqs[i] EXCEPT !.mode = mode], 500)
                  ELSE [reqs[i] EXCEPT !.pc = "e_insert", !.mode = mode,
                                       !.enriched = m]]
  /\ UNCHANGED <<impl, now, tables, daemon>>

\* lines 80-91: one insert of all the rows (role_id REFERENCES roles(id): the
\* rows of an unknown role are refused and the error dropped), answer the
\* enriched leads
EnrichInsert(i) ==
  /\ reqs[i].pc = "e_insert"
  /\ reqs[i].enriched <= Cardinality(FreshIds)
  /\ candidates' = IF reqs[i].role \in DOMAIN roles
                     THEN NewCandidates(FreshN(reqs[i].enriched), reqs[i].role, "sourced")
                     ELSE candidates
  /\ reqs' = [reqs EXCEPT ![i] = Done(reqs[i], 200)]
  /\ UNCHANGED <<impl, now, roles, outreach, engagements, config, daemon>>

\* ------------------------------------------------------------ xray_search

\* A lead is told by its public_url.  mockLeads, lines 37-43, and the list of
\* handleXraySearch, server.js lines 124-128
mockLeads == <<"grace", "linus", "ada">>

Urls == {"grace", "linus", "ada"}

\* A request without count; line 76: payload.count || 5
NoCount == 0
DefaultCount == 5
\* server.js line 129: body.count || 3
ServerDefaultCount == 3

\* Array.prototype.slice(0, n)
Slice(s, n) == SubSeq(s, 1, Min(n, Len(s)))

\* searchGoogle lines 53-62: one lead per item of the reply, in the order and
\* number Google sent them (the limit only travels in the query, line 50)
GoogleReplies == UNION {[1..n -> Urls] : n \in 0..MaxItems}

\* lines 66-76: parse, validate role_id, default the count
XrayStart(i, r, count) ==
  /\ impl = "edge"
  /\ Free(i)
  /\ \A j \in Slots : j < i => Busy(j)
  /\ LET q == [IdleReq EXCEPT !.op = "xray", !.role = r, !.leads = count]
     IN reqs' = [reqs EXCEPT ![i] = IF r = NoId THEN Done(q, 400)
                                    ELSE [q EXCEPT !.pc = "x_role"]]
  /\ UNCHANGED <<impl, now, tables, daemon>>

\* lines 78-80: fetch the role's keywords; no row gives none
XrayFetchRole(i) ==
  /\ reqs[i].pc = "x_role"
  /\ reqs' = [reqs EXCEPT ![i] = [reqs[i] EXCEPT !.pc = "x_search"]]
  /\ UNCHANGED <<impl, now, tables, daemon>>

\* lines 81-91: the first `count` mock leads under the mock flag or without
\* credentials, else the leads of searchGoogle, whose failure is answered 500
XraySearch(i, mode, items, failed) ==
  /\ reqs[i].pc = "x_search"
  /\ \/ mode = "mock" /\ ~failed
     \/ mode = "live" /\ items \in GoogleReplies
  /\ LET q == reqs[i]
         count == IF q.leads = NoCount THEN DefaultCount ELSE q.leads
     IN reqs' = [reqs EXCEPT ![i] =
                   IF failed
                     THEN Done([q EXCEPT !.mode = mode], 500)
                     ELSE Done([q EXCEPT !.mode = mode,
                                         !.result = IF mode = "mock"
                                                      THEN Slice(mockLeads, count)
                                                      ELSE items], 200)]
  /\ UNCHANGED <<impl, now, tables, daemon>>

\* handleXraySearch, server.js lines 123-130
handleXraySearch(i, count) ==
  /\ impl = "mock"
  /\ reqs' = [reqs EXCEPT ![i] =
                [IdleReq EXCEPT !.op = "xray", !.leads = count, !.mode = "mock",
                                !.result = Slice(mockLeads,
                                                 IF count = NoCount
                                                   THEN ServerDefaultCount ELSE count),
                                !.pc = "done", !.resp = 200]]
  /\ UNCHANGED <<impl, now, tables, daemon>>

\* ------------------------------------------------------------ pipeline_daemon (edge)

\* One invocation: the roles still to visit, what the count said of each role
\* visited so far (depth Null when the count query failed), and the sourcing
\* requests the invocation has issued.  No line of the handler issues one.
\* `base` is the length of the engagement log when the invocation began.
IdleDaemon ==
  [pc |-> "idle", todo |-> <<>>, visited |-> <<>>, requested |-> <<>>, base |-> 0]

\* lines 19-20: the roles query fails; data is null and the loop runs over []
DaemonFetchRolesFailed ==
  /\ impl = "edge"
  /\ daemon.pc = "idle"
  /\ daemon' = [IdleDaemon EXCEPT !.pc = "loop", !.base = Len(engagements)]
  /\ UNCHANGED <<impl, now, tables, reqs>>

\* OpenRoles without the filter on status.
OpenRolesUnfiltered == DOMAIN roles

OpenRoles == {r \in DOMAIN roles : roles[r].status = "open"}

\* The orders in which a select without ORDER BY may return the rows of `S`.
Orders(S) ==
  {q \in [1..Cardinality(S) -> S] : \A a, b \in 1..Cardinality(S) : a # b => q[a] # q[b]}

\* line 19: select * from roles where status = 'open'
DaemonFetchRoles ==
  /\ impl = "edge"
  /\ daemon.pc = "idle"
  /\ \E q \in Orders(OpenRoles) :
       daemon' = [IdleDaemon EXCEPT !.pc = "loop", !.todo = q,
                                    !.base = Len(engagements)]
  /\ UNCHANGED <<impl, now, tables, reqs>>

\* DaemonCount where a failed count throws and the invocation dies unanswered.
DaemonCountCrashing(failed) ==
  /\ daemon.pc = "loop"
  /\ daemon.todo # <<>>
  /\ LET role == Head(daemon.todo)
         count == CountByRole(role)
         thin == count < roles[role].min_pipeline
         seen == [role |-> role, depth |-> IF failed THEN Null ELSE count,
                  thin |-> ~failed /\ thin]
     IN daemon' = IF failed
                    THEN [daemon EXCEPT !.pc = "crashed"]
                    ELSE IF thin
                      THEN [daemon EXCEPT !.pc = "log", !.visited = Append(@, seen)]
                      ELSE [daemon EXCEPT !.todo = Tail(@), !.visited = Append(@, seen)]
  /\ UNCHANGED <<impl, now, tables, reqs>>

\* DaemonCount that finds a role thin already when its count equals min_pipeline.
DaemonCountEager(failed) ==
  /\ daemon.pc = "loop"
  /\ daemon.todo # <<>>
  /\ LET role == Head(daemon.todo)
         count == CountByRole(role)
         thin == count <= roles[role].min_pipeline
         seen == [role |-> role, depth |-> IF failed THEN Null ELSE count,
                  thin |-> ~failed /\ thin]
     IN daemon' = IF ~failed /\ thin
                    THEN [daemon EXCEPT !.pc = "log", !.visited = Append(@, seen)]
                    ELSE [daemon EXCEPT !.todo = Tail(@), !.visited = Append(@, seen)]
  /\ UNCHANGED <<impl, now, tables, reqs>>

\* DaemonCount where a failed count ends the loop instead of skipping the role.
DaemonCountAborting(failed) ==
  /\ daemon.pc = "loop"
  /\ daemon.todo # <<>>
  /\ LET role == Head(daemon.todo)
         count == CountByRole(role)
         thin == count < roles[role].min_pipeline
         seen == [role |-> role, depth |-> IF failed THEN Null ELSE count,
                  thin |-> ~failed /\ thin]
     IN daemon' = IF failed
                    THEN [daemon EXCEPT !.todo = <<>>, !.visited = Append(@, seen)]
                    ELSE IF thin
                      THEN [daemon EXCEPT !.pc = "log", !.visited = Append(@, seen)]
                      ELSE [daemon EXCEPT !.todo = Tail(@), !.visited = Append(@, seen)]
  /\ UNCHANGED <<impl, now, tables, reqs>>

\* lines 20-24: count the role's candidates; an error skips the role
DaemonCount(failed) ==
  /\ daemon.pc = "loop"
  /\ daemon.todo # <<>>
  /\ LET role == Head(daemon.todo)
         count == CountByRole(role)
         thin == count < roles[role].min_pipeline
         seen == [role |-> role, depth |-> IF failed THEN Null ELSE count,
                  thin |-> ~failed /\ thin]
     IN daemon' = IF ~failed /\ thin
                    THEN [daemon EXCEPT !.pc = "log", !.visited = Append(@, seen)]
                    ELSE [daemon EXCEPT !.todo = Tail(@), !.visited = Append(@, seen)]
  /\ UNCHANGED <<impl, now, tables, reqs>>

\* DaemonWriteLog that also advances the thin role's candidates, as a daemon
\* that re-sent outreach on every cycle would.
DaemonWriteLogResending ==
  /\ daemon.pc = "log"
  /\ config' = config \cup {[role |-> Head(daemon.todo), at |-> now]}
  /\ candidates' = [c \in DOMAIN candidates |->
                      IF candidates[c].role_id = Head(daemon.todo)
                        THEN [candidates[c] EXCEPT !.status = "contacted"]
                        ELSE candidates[c]]
  /\ engagements' = Append(engagements, [candidate_id |-> 1, event |-> "sent"])
  /\ daemon' = [daemon EXCEPT !.pc = "loop", !.todo = Tail(@)]
  /\ UNCHANGED <<impl, now, roles, outreach, reqs>>

\* DaemonWriteLog that also sends to every candidate of the thin role.
DaemonWriteLogFlooding ==
  /\ daemon.pc = "log"
  /\ config' = config \cup {[role |-> Head(daemon.todo), at |-> now]}
  /\ engagements' =
       engagements \o [k \in 1..Cardinality(DOMAIN candidates) |->
                         [candidate_id |-> k, event |-> "sent"]]
  /\ daemon' = [daemon EXCEPT !.pc = "loop", !.todo = Tail(@)]
  /\ UNCHANGED <<impl, now, roles, candidates, outreach, reqs>>

\* lines 26-27: insert the log row pipeline_<role>_<now>; config.key is the
\* primary key, so a second row with the same key is refused
DaemonWriteLog ==
  /\ daemon.pc = "log"
  /\ config' = config \cup {[role |-> Head(daemon.todo), at |-> now]}
  /\ daemon' = [daemon EXCEPT !.pc = "loop", !.todo = Tail(@)]
  /\ UNCHANGED <<impl, now, roles, candidates, outreach, engagements, reqs>>

\* line 30: every role visited, answer success
DaemonRespond ==
  /\ daemon.pc = "loop"
  /\ daemon.todo = <<>>
  /\ daemon' = IdleDaemon
  /\ UNCHANGED <<impl, now, tables, reqs>>

\* ------------------------------------------------------------ time

\* Date.now() / new Date(), which only the edge functions read, moves on.
Tick ==
  /\ impl = "edge"
  /\ now < MaxTime
  /\ now' = now + 1
  /\ UNCHANGED <<impl, roles, candidates, outreach, engagements, config, reqs, daemon>>

\* ------------------------------------------------------------ specification

\* The tables of a deployed database: the seeded open role, which owns both
\* candidates, an open role that wants no pipeline, and a paused role.
SeedRoles ==
  [r \in RoleIds |->
     IF r = 1 THEN [status |-> "open", min_pipeline |-> SeedMinPipeline]
     ELSE IF r = 2 THEN [status |-> "open", min_pipeline |-> 0]
     ELSE [status |-> "paused", min_pipeline |-> SeedMinPipeline]]

\* What candidate 1 starts as, status and outreach rows:
\*   newly sourced; screened with the draft row generate_outreach inserts;
\*   contacted at time 0 with the next step scheduled for time 1;
\*   interested; interviewing (the statuses of the seeded candidates).
SeedLedgers ==
  { <<"sourced", <<>>>>,
    <<"screened",
      <<[candidate_id |-> 1, step |-> 1, last_sent_at |-> Null, next_send_at |-> Null]>>>>,
    <<"contacted",
      <<[candidate_id |-> 1, step |-> 1, last_sent_at |-> 0, next_send_at |-> 1]>>>>,
    <<"interested", <<>>>>,
    <<"interviewing", <<>>>> }

InitEdge ==
  /\ impl = "edge"
  /\ roles = SeedRoles
  /\ \E l \in SeedLedgers :
       /\ candidates = [c \in CandPool |->
                          [role_id |-> 1, status |-> IF c = 1 THEN l[1] ELSE "sourced"]]
       /\ outreach = l[2]

\* server.js lines 20-27: the store starts empty
InitMock ==
  /\ impl = "mock"
  /\ roles = <<>>
  /\ candidates = <<>>
  /\ outreach = <<>>

Init ==
  /\ now = 0
  /\ engagements = <<>>
  /\ config = {}
  /\ reqs = [i \in Slots |-> IdleReq]
  /\ daemon = IdleDaemon
  /\ (InitEdge \/ InitMock)

\* The requests that arrive: in the slots `S`, for the identifiers `Ids`,
\* carrying the notifications `Ns`.
EdgeRequests(S, Ids, Ns) ==
  \/ \E i \in S, c \in Ids : SendStart(i, c)
  \/ \E i \in S : SendFetchCandidate(i)
  \/ \E i \in S : SendFetchOutreach(i)
  \/ \E i \in S : SendWriteOutreach(i)
  \/ \E i \in S : SendUpdateStatus(i)
  \/ \E i \in S : SendWriteEvent(i)
  \/ \E i \in S, n \in Ns : IngestStart(i, n[1], n[2])
  \/ \E i \in S : IngestWriteEvent(i)
  \/ \E i \in S : IngestUpdateStatus(i)
  \/ \E i \in S, c \in Ids : ScheduleStart(i, c)
  \/ \E i \in S : ScheduleUpdateStatus(i)
  \/ \E i \in S : ScheduleWriteEvent(i)

\* generate_outreach requests, naming the seeded role or none.  (The mock is
\* asked for drafts of candidates it has.)
EdgeDrafts(S, Ids) ==
  \/ \E i \in S, c \in Ids, r \in {NoId, 1} : GenerateStart(i, c, r)
  \/ \E i \in S : GenerateFetch(i)
  \/ \E i \in S : GenerateWriteOutreach(i)

\* The scores play no part in a candidate's lifecycle: where screening only
\* creates candidates, one draw stands for all.
LowestScreen == {x \in ServerScreens : x.culture + x.technical + x.experience + x.fit = 3}

MockRequests ==
  \/ \E c \in RequestIds : handleSendSequence(c)
  \/ \E n \in Notifications : handleIngestWebhook(n[1], n[2])
  \/ \E c \in RequestIds : handleScheduleMeeting(c)
  \/ \E r \in RoleIds : handleEnrich(r, 1)
  \/ \E r \in RoleIds, result \in LowestScreen :
       handleScreenResume(1, r, "cv1", result)

DaemonCycle ==
  \/ DaemonFetchRoles
  \/ \E failed \in BOOLEAN : DaemonCount(failed)
  \/ DaemonWriteLog
  \/ DaemonRespond

\* Requests served one at a time, by either deployment.
Next ==
  \/ EdgeRequests({1}, RequestIds, Notifications)
  \/ MockRequests
  \/ Tick

Spec == Init /\ [][Next]_vars

\* Drafting and sending, served one request at a time by either deployment.
NextOutreach ==
  \/ EdgeDrafts({1}, RequestIds)
  \/ \E c \in RequestIds : SendStart(1, c)
  \/ SendFetchCandidate(1)
  \/ SendFetchOutreach(1)
  \/ SendWriteOutreach(1)
  \/ SendUpdateStatus(1)
  \/ SendWriteEvent(1)
  \/ \E c \in CandPool : handleGenerateOutreach(c)
  \/ \E c \in RequestIds : handleSendSequence(c)
  \/ handleEnrich(1, 1)
  \/ Tick

SpecOutreach == Init /\ [][NextOutreach]_vars

\* The deployed edge functions alone.
InitSends == Init /\ impl = "edge"

\* send_sequence requests one at a time, any of which may be cut short.
NextCrash ==
  \/ \E c \in CandPool : SendStart(1, c)
  \/ SendFetchCandidate(1)
  \/ SendFetchOutreach(1)
  \/ SendWriteOutreach(1)
  \/ SendUpdateStatus(1)
  \/ SendWriteEvent(1)
  \/ SendCrash(1)
  \/ Tick

SpecCrash == InitSends /\ [][NextCrash]_vars

\* send_sequence requests one at a time while the storage refuses every write.
NextFailing ==
  \/ \E c \in CandPool : SendStart(1, c)
  \/ SendFetchCandidate(1)
  \/ SendFetchOutreach(1)
  \/ SendWriteOutreachRefused(1)
  \/ SendUpdateStatusRefused(1)
  \/ SendWriteEventRefused(1)
  \/ Tick

SpecFailing == InitSends /\ [][NextFailing]_vars

\* Resume screening alone, from tables without candidates: the edge function
\* with two requests in flight, or server.js.
InitScreen ==
  /\ now = 0
  /\ engagements = <<>>
  /\ config = {}
  /\ reqs = [i \in Slots |-> IdleReq]
  /\ daemon = IdleDaemon
  /\ candidates = <<>>
  /\ outreach = <<>>
  /\ \/ impl = "edge" /\ roles = SeedRoles
     \/ impl = "mock" /\ roles = <<>>

NextScreen ==
  \/ \E i \in Slots, r \in {NoId, 1}, cv \in Resumes \cup {Missing} : ScreenStart(i, r, cv)
  \/ \E i \in Slots, result \in MockScreens : ScreenScore(i, "mock", result, FALSE)
  \/ \E i \in Slots, result \in Replies, failed \in BOOLEAN :
       ScreenScore(i, "live", result, failed)
  \/ \E i \in Slots : ScreenInsert(i)
  \/ \E i \in Slots, r \in {NoId, 1}, cv \in Resumes, result \in ServerScreens :
       handleScreenResume(i, r, cv, result)

SpecScreen == InitScreen /\ [][NextScreen]_vars

\* Enrichment alone, from tables without candidates, one request at a time:
\* for the seeded role, an unknown role or none, with up to MaxLeads leads or
\* no leads array.
EnrichRoles == {NoId, 1, GhostRole}
LeadCounts == (0..MaxLeads) \cup {NoLeads}

NextEnrich ==
  \/ \E r \in EnrichRoles, n \in LeadCounts : EnrichStart(1, r, n)
  \/ \E m \in 0..MaxLeads : EnrichCall(1, "mock", m, FALSE)
  \/ \E m \in 0..MaxLeads, failed \in BOOLEAN : EnrichCall(1, "live", m, failed)
  \/ EnrichInsert(1)
  \/ \E r \in EnrichRoles, n \in LeadCounts : handleEnrich(r, n)

SpecEnrich == InitScreen /\ [][NextEnrich]_vars

\* Sourcing searches alone, one request at a time: for the seeded role, an
\* unknown role or none, asking for one or two leads or for no number.
Counts == {NoCount, 1, 2}

NextXray ==
  \/ \E r \in EnrichRoles, count \in Counts : XrayStart(1, r, count)
  \/ XrayFetchRole(1)
  \/ XraySearch(1, "mock", <<>>, FALSE)
  \/ \E items \in GoogleReplies, failed \in BOOLEAN : XraySearch(1, "live", items, failed)
  \/ \E count \in Counts : handleXraySearch(1, count)

SpecXray == InitScreen /\ [][NextXray]_vars

\* The edge functions with two well-formed requests in flight at once.
InitConcurrent == Init /\ impl = "edge"

NextConcurrent ==
  \/ EdgeRequests(Slots, CandPool, CandPool \X MappedEvents)
  \/ Tick

SpecConcurrent == InitConcurrent /\ [][NextConcurrent]_vars

\* The scheduled daemon, invoked again and again with no request in between,
\* over the tables requests may have left: candidate 1 in a seeded status or
\* rejected by a bounce, role 1 wanting two or three candidates and having
\* two, role 2 wanting none or one and having none, role 3 paused and empty.
DaemonLedgers == SeedLedgers \cup {<<"rejected", <<>>>>}

InitDaemon ==
  /\ impl = "edge"
  /\ now = 0
  /\ engagements = <<>>
  /\ config = {}
  /\ reqs = [i \in Slots |-> IdleReq]
  /\ daemon = IdleDaemon
  /\ \E m1 \in {2, SeedMinPipeline}, m2 \in {0, 1} :
       roles = [SeedRoles EXCEPT ![1].min_pipeline = m1, ![2].min_pipeline = m2]
  /\ \E l \in DaemonLedgers :
       /\ candidates = [c \in CandPool |->
                          [role_id |-> 1, status |-> IF c = 1 THEN l[1] ELSE "sourced"]]
       /\ outreach = l[2]

NextDaemon ==
  \/ DaemonCycle
  \/ Tick

SpecDaemon == InitDaemon /\ [][NextDaemon]_vars

\* The scheduler keeps invoking the daemon, and an invocation runs to its end.
SpecDaemonLive == SpecDaemon /\ WF_vars(DaemonCycle)

\* The daemon when the roles query may fail too.  The scheduler keeps
\* invoking it, and an invocation that can take a step takes it.
NextDaemonFaulty ==
  \/ DaemonCycle
  \/ DaemonFetchRolesFailed
  \/ Tick

SpecDaemonFaulty ==
  InitDaemon /\ [][NextDaemonFaulty]_vars /\ WF_vars(DaemonCycle)

\* ------------------------------------------------------------ lifecycle graph

\* The happy path, spec section 3, as positions.
Rank(s) ==
  CASE s = "sourced" -> 1
    [] s = "contacted" -> 2
    [] s = "interested" -> 3
    [] s = "screened" -> 4
    [] s = "interviewing" -> 5
    [] s = "offered" -> 6
    [] s = "hired" -> 7
    [] OTHER -> 0

HappyPath == Statuses \ {"rejected"}

Edges ==
  {<<a, b>> \in HappyPath \X HappyPath : Rank(b) = Rank(a) + 1}
    \cup ({"contacted", "interested", "screened"} \X {"rejected"})

Contactable == {"sourced", "contacted", "interested", "screened"}

InterestedOrLater == {"interested", "screened", "interviewing", "offered", "hired"}

\* The candidates present before and after a step.
Kept == DOMAIN candidates \cap DOMAIN candidates'

\* Slot i takes a step of a request of kind `op`.
StepOf(i, op) == reqs'[i] # reqs[i] /\ reqs'[i].op = op

\* ------------------------------------------------------------ claims

\* C1: every status change of a candidate is an edge of the lifecycle graph
\* sourced -> contacted -> interested -> screened -> interviewing -> offered
\* -> hired, or an edge to rejected from contacted, interested or screened.
C1_TransitionsFollowGraph ==
  [][\A c \in Kept :
       candidates'[c].status # candidates[c].status
         => <<candidates[c].status, candidates'[c].status>> \in Edges]_vars

\* C2: under any interleaving of ingest_webhook and send_sequence requests, a
\* candidate's status never moves from a happy-path state back to an earlier
\* happy-path state.
C2_StatusNeverRegresses ==
  [][(\E i \in Slots : StepOf(i, "send") \/ StepOf(i, "ingest")) =>
       \A c \in Kept :
         (candidates[c].status \in HappyPath /\ candidates'[c].status \in HappyPath)
           => Rank(candidates'[c].status) >= Rank(candidates[c].status)]_vars

\* C3: a status update is a compare-and-swap on the status the request read:
\* of two requests that read the same prior status of the same candidate, at
\* most one update is applied; an update whose expected status is no longer
\* the stored one is not applied.
C3_CompareAndSwap ==
  \A i, j \in Slots :
    ( /\ i # j
      /\ reqs[i].op = "send" /\ reqs[j].op = "send"
      /\ reqs[i].cand = reqs[j].cand
      /\ reqs[i].seen # "none" /\ reqs[i].seen = reqs[j].seen )
    => ~( /\ reqs[i].updates = 1 /\ reqs[j].updates = 1
          /\ (reqs[i].clobbered \/ reqs[j].clobbered) )

\* C4: a daemon cycle, and so the second of two consecutive cycles with no
\* request in between, sends no outreach and changes no candidate status: no
\* step of it touches candidates, outreach rows or engagement events.
C4_CycleSendsNothing ==
  [][UNCHANGED <<candidates, outreach, engagements>>]_vars

\* Two whole cycles have run, at times 0 and 1, with no request ever made.
C4_Witness ==
  /\ daemon.pc = "idle"
  /\ \A t \in {0, 1} : [role |-> 1, at |-> t] \in config
  /\ \A i \in Slots : reqs[i].pc = "idle"

\* C5: once a `replied` event has been ingested for a candidate, a later send
\* request for that candidate dispatches nothing, and the candidate's status
\* stays interested or later.
C5_NoSendAfterReply ==
  \A i \in Slots :
    (reqs[i].op = "send" /\ reqs[i].late /\ reqs[i].pc = "done" /\ Exists(reqs[i].cand))
      => (reqs[i].resp # 200 /\ StatusOf(reqs[i].cand) \in InterestedOrLater)

\* An outreach row of candidate c whose next_send_at is still in the future.
NotDue(c) ==
  \E k \in OutreachRowsOf(c) :
    outreach[k].next_send_at # Null /\ outreach[k].next_send_at > now

C7_NoSendOutsideContactable ==
  [][\A i \in Slots :
       ( /\ StepOf(i, "send")
         /\ Exists(reqs'[i].cand)
         /\ StatusOf(reqs'[i].cand) \notin Contactable )
         => UNCHANGED <<candidates, outreach, engagements>>]_vars

\* The mapping the event ingestor is specified to apply.
EventStatus(e) ==
  CASE e = "opened" -> "contacted"
    [] e = "replied" -> "interested"
    [] e = "bounced" -> "rejected"
    [] OTHER -> "none"

\* C8: an ingested event changes the candidate's status exactly as the mapping
\* opened->contacted, replied->interested, bounced->rejected says, any other
\* kind changes no status, and one event causes at most one status update
\* (exactly one when the kind is mapped and the request succeeds).
C8_IngestAppliesMapping ==
  [][\A i \in Slots :
       StepOf(i, "ingest") =>
         LET r == reqs'[i]
             target == EventStatus(r.event)
         IN /\ r.updates <= 1
            /\ r.resp # 400 => r.newStatus = target
            /\ target = "none" => (r.updates = 0 /\ candidates' = candidates)
            /\ candidates' # candidates =>
                 /\ Exists(r.cand)
                 /\ candidates' = [candidates EXCEPT ![r.cand].status = target]
            /\ (r.pc = "done" /\ r.resp = 200 /\ target # "none" /\ Exists(r.cand))
                 => (r.updates = 1 /\ candidates'[r.cand].status = target)]_vars

\* A `replied` notification for a candidate has been ingested: one
\* update, and the stored status is the mapped one.
C8_Witness ==
  \E i \in Slots :
    /\ reqs[i].op = "ingest" /\ reqs[i].pc = "done" /\ reqs[i].resp = 200
    /\ reqs[i].event = "replied" /\ reqs[i].updates = 1
    /\ Exists(reqs[i].cand) /\ StatusOf(reqs[i].cand) = "interested"

\* C9: a notification missing the candidate identifier or the event kind is
\* rejected with an error and mutates nothing: no engagement event is
\* appended and no status changes.
C9_MalformedRejected ==
  [][\A i \in Slots :
       (StepOf(i, "ingest") /\ (reqs'[i].cand = NoId \/ reqs'[i].event = Missing))
         => /\ reqs'[i].pc = "done" /\ reqs'[i].resp = 400
            /\ UNCHANGED <<candidates, engagements>>]_vars

\* C10: ingesting an event for an identifier that is not in the ledger answers
\* notFound and appends nothing; ingesting for an existing candidate appends
\* the event and answers success.
C10_IngestNotFound ==
  \A i \in Slots :
    ( /\ reqs[i].op = "ingest" /\ reqs[i].pc = "done"
      /\ reqs[i].cand # NoId /\ reqs[i].event # Missing )
    => IF Exists(reqs[i].cand)
         THEN reqs[i].resp = 200 /\ HasEvent(reqs[i].cand, reqs[i].event)
         ELSE reqs[i].resp = 404 /\ ~HasEvent(reqs[i].cand, reqs[i].event)

\* C11: ingest_webhook appends the engagement event before it attempts the
\* status update and records it whether or not the update takes effect: an
\* ingest request for an existing candidate that is about to update, has
\* updated, or has answered success, has its event in the log.
C11_EventBeforeStatus ==
  \A i \in Slots :
    ( /\ reqs[i].op = "ingest"
      /\ Exists(reqs[i].cand)
      /\ \/ reqs[i].pc = "i_status"
         \/ reqs[i].updates = 1
         \/ (reqs[i].pc = "done" /\ reqs[i].resp = 200) )
    => HasEvent(reqs[i].cand, reqs[i].event)

\* A `bounced` notification has rejected a candidate and is in the log.
C11_Witness ==
  \E i \in Slots :
    /\ reqs[i].op = "ingest" /\ reqs[i].event = "bounced" /\ reqs[i].updates = 1
    /\ Exists(reqs[i].cand) /\ StatusOf(reqs[i].cand) = "rejected"
    /\ HasEvent(reqs[i].cand, "bounced")

\* ------------------------------------------------------------ daemon claims

\* The roles the running cycle has finished with.
Processed ==
  {k \in 1..Len(daemon.visited) :
     ~(daemon.pc = "log" /\ k = Len(daemon.visited))}

\* The cycle has visited every role it fetched and is about to answer.
CycleOver == daemon.pc = "loop" /\ daemon.todo = <<>>

\* The sourcing requests the running cycle issued for role r.
RequestsFor(r) ==
  {k \in 1..Len(daemon.requested) : daemon.requested[k].role = r}

\* Terminal statuses, and the depth of the glossary: the role's candidates in
\* a non-terminal status.
Terminal == {"hired", "rejected"}

PipelineDepth(r) ==
  Cardinality({c \in DOMAIN candidates :
                 candidates[c].role_id = r /\ candidates[c].status \notin Terminal})

\* C12: in one cycle, for an open role whose depth is below min_pipeline,
\* exactly one search request is issued and it asks for min_pipeline - depth
\* leads.
C12_OneSearchForTheGap ==
  \A k \in Processed :
    LET v == daemon.visited[k]
    IN v.thin =>
         /\ Cardinality(RequestsFor(v.role)) = 1
         /\ \A q \in RequestsFor(v.role) :
              daemon.requested[q].count = roles[v.role].min_pipeline - v.depth

\* C13: the depth the daemon compares with min_pipeline is the number of the
\* role's candidates in a non-terminal status: a role is found thin exactly
\* when that number is below min_pipeline.
C13_DepthSkipsTerminal ==
  \A k \in 1..Len(daemon.visited) :
    LET v == daemon.visited[k]
    IN v.depth # Null =>
         (v.thin <=> PipelineDepth(v.role) < roles[v.role].min_pipeline)

\* C14: for an open role with min_pipeline = 1 and no candidate, one cycle
\* leaves the role with exactly one candidate, in status sourced.
C14_CycleSourcesOne ==
  \A k \in 1..Len(daemon.visited) :
    LET v == daemon.visited[k]
    IN (CycleOver /\ v.depth = 0 /\ roles[v.role].min_pipeline = 1)
         => /\ CountByRole(v.role) = 1
            /\ \A c \in DOMAIN candidates :
                 candidates[c].role_id = v.role => candidates[c].status = "sourced"

\* A cycle has just found role r thin.
FoundThin(r) == daemon.pc = "log" /\ Head(daemon.todo) = r

\* C15: a role that cycle after cycle is found below min_pipeline eventually
\* has at least min_pipeline candidates.
C15_Replenished ==
  \A r \in RoleIds :
    ([]<>FoundThin(r)) => <>(CountByRole(r) >= roles[r].min_pipeline)

\* A log row of role r.
Logged(r) == \E row \in config : row.role = r

\* C16: a cycle acts only on open roles: a role that is not open is never
\* fetched, counted or logged, and no cycle step sources or sends anything.
C16_OnlyOpenRoles ==
  /\ \A k \in 1..Len(daemon.todo) : roles[daemon.todo[k]].status = "open"
  /\ \A k \in 1..Len(daemon.visited) : roles[daemon.visited[k].role].status = "open"
  /\ \A r \in DOMAIN roles : Logged(r) => roles[r].status = "open"
  /\ daemon.requested = <<>>
  /\ engagements = <<>>

\* A cycle is over that logged thin role 1 and left the paused role 3, which
\* is below its min_pipeline too, alone.
C16_Witness ==
  /\ CycleOver
  /\ Logged(1)
  /\ roles[3].status = "paused"
  /\ CountByRole(3) < roles[3].min_pipeline
  /\ ~Logged(3)

\* C17: a failed count is confined to its role: the cycle still visits every
\* open role exactly once and writes the log row of every role it found thin.
C17_FailureConfined ==
  CycleOver =>
    /\ {daemon.visited[k].role : k \in 1..Len(daemon.visited)} = OpenRoles
    /\ Len(daemon.visited) = Cardinality(OpenRoles)
    /\ \A k \in 1..Len(daemon.visited) :
         daemon.visited[k].thin => Logged(daemon.visited[k].role)

\* A cycle is over in which the count of role 1 failed first and role 2 was
\* then found thin and logged.
C17_Witness ==
  /\ CycleOver
  /\ Len(daemon.visited) = 2
  /\ daemon.visited[1].role = 1 /\ daemon.visited[1].depth = Null
  /\ daemon.visited[2].role = 2 /\ daemon.visited[2].thin
  /\ Logged(2) /\ ~Logged(1)

\* ------------------------------------------------------------ outreach claims

\* C18: every candidate has at most one outreach record.
C18_OneRecordPerCandidate ==
  \A c \in DOMAIN candidates : Cardinality(OutreachRowsOf(c)) <= 1

\* C19: the step of an outreach record is at least 1 and never decreases; a
\* send for a candidate without a record creates one at step 1, the first
\* send on a record never sent before leaves its step where it is, at 1, and
\* a send on a record sent before raises its step by exactly 1.
C19_StepAdvancesByOne ==
  [][/\ Len(outreach') >= Len(outreach)
     /\ \A k \in 1..Len(outreach) :
          outreach[k].step >= 1 /\ outreach'[k].step >= outreach[k].step
     /\ \A i \in Slots :
          (StepOf(i, "send") /\ outreach' # outreach) =>
            LET c == reqs'[i].cand
                n == Len(outreach)
            IN IF OutreachRowsOf(c) = {}
                 THEN /\ Len(outreach') = n + 1
                      /\ outreach'[n + 1].candidate_id = c
                      /\ outreach'[n + 1].step = 1
                 ELSE /\ Len(outreach') = n
                      /\ \A k \in OutreachRowsOf(c) :
                           outreach'[k].step # outreach[k].step =>
                             /\ outreach[k].last_sent_at # Null
                             /\ outreach'[k].step = outreach[k].step + 1]_vars

\* C20: after a successful send the candidate's outreach record has
\* last_sent_at set to the send time and next_send_at set to a later time, and
\* the candidate's status is contacted.
C20_SendSchedulesNext ==
  \A i \in Slots :
    ( /\ reqs[i].op = "send" /\ reqs[i].pc = "done" /\ reqs[i].resp = 200
      /\ Exists(reqs[i].cand) )
    => /\ StatusOf(reqs[i].cand) = "contacted"
       /\ \E k \in OutreachRowsOf(reqs[i].cand) :
            /\ outreach[k].last_sent_at # Null
            /\ outreach[k].last_sent_at <= now
            /\ outreach[k].next_send_at # Null
            /\ outreach[k].next_send_at > outreach[k].last_sent_at

\* ------------------------------------------------------------ cycle limits and order

\* The sends the running cycle has dispatched to candidates of role r.
SendsInCycle(r) ==
  {k \in (daemon.base + 1)..Len(engagements) :
     /\ engagements[k].event = "sent"
     /\ Exists(engagements[k].candidate_id)
     /\ candidates[engagements[k].candidate_id].role_id = r}

\* C22: within one cycle at most SendCeiling outreach sends and at most
\* SourcingCeiling sourcing calls are dispatched for any one role.
C22_CycleWithinCeilings ==
  daemon.pc # "idle" =>
    \A r \in DOMAIN roles :
      /\ Cardinality(SendsInCycle(r)) <= SendCeiling
      /\ Cardinality(RequestsFor(r)) <= SourcingCeiling

\* A cycle is over that found role 1, with its two candidates, thin.
C22_Witness ==
  /\ CycleOver
  /\ \E k \in 1..Len(daemon.visited) :
       daemon.visited[k].role = 1 /\ daemon.visited[k].thin
  /\ CountByRole(1) = 2
  /\ [role |-> 1, at |-> now] \in config

\* C23: within a cycle the open roles are processed in ascending order of
\* their identifiers.
C23_AscendingRoleOrder ==
  \A a, b \in 1..Len(daemon.visited) :
    a < b => daemon.visited[a].role < daemon.visited[b].role

\* ------------------------------------------------------------ the engagement log

\* C24: the engagement log is append-only and write-once: every step leaves
\* the entries already written where and as they are.
C24_LogAppendOnly ==
  [][/\ Len(engagements') >= Len(engagements)
     /\ \A k \in 1..Len(engagements) : engagements'[k] = engagements[k]]_vars

\* Two entries have been appended, one after the other.
C24_Witness ==
  /\ Len(engagements) = 2
  /\ \E i \in Slots : reqs[i].pc = "done" /\ reqs[i].resp = 200
                      /\ reqs[i].op \in {"send", "ingest", "schedule"}

\* C25: every engagement event recorded has a kind in {sent, opened, replied,
\* scheduled, bounced}.
C25_LogKindsInSchema ==
  \A k \in 1..Len(engagements) : engagements[k].event \in SchemaEvents

\* ------------------------------------------------------------ frame

\* C27: no step deletes a candidate or an outreach record, or changes the
\* lifecycle status of a role.
C27_NothingDeleted ==
  [][/\ DOMAIN candidates \subseteq DOMAIN candidates'
     /\ Len(outreach') >= Len(outreach)
     /\ \A k \in 1..Len(outreach) :
          outreach'[k].candidate_id = outreach[k].candidate_id
     /\ DOMAIN roles' = DOMAIN roles
     /\ \A r \in DOMAIN roles : roles'[r].status = roles[r].status]_vars

\* Enrichment and screening have each created a candidate and a send has
\* contacted one of them; both are still there.
C27_Witness ==
  /\ DOMAIN candidates = CandPool
  /\ \E c \in CandPool : candidates[c].status = "screened"
  /\ \E i \in Slots :
       /\ reqs[i].op = "send" /\ reqs[i].pc = "done" /\ reqs[i].resp = 200
       /\ Exists(reqs[i].cand) /\ StatusOf(reqs[i].cand) = "contacted"

\* ------------------------------------------------------------ mock against edge

\* The response of the edge function to an answered request.
EdgeResponse(r) ==
  CASE r.op = "send" -> SendResponse(r.cand)
    [] r.op = "ingest" -> IngestResponse(r.cand, r.event)
    [] r.op = "schedule" -> ScheduleResponse(r.cand)
    [] OTHER -> r.resp

\* C29: server.js answers and records what the edge functions do: an answered
\* send, ingest or schedule request has the edge function's response, a
\* successful send leaves the candidate an outreach record, and the
\* engagement log holds events of existing candidates only.
C29_MockEmulatesEdge ==
  /\ \A i \in Slots :
       (reqs[i].pc = "done" /\ reqs[i].op \in {"send", "ingest", "schedule"})
         => /\ reqs[i].resp = EdgeResponse(reqs[i])
            /\ (reqs[i].op = "send" /\ reqs[i].resp = 200)
                 => OutreachRowsOf(reqs[i].cand) # {}
  /\ \A k \in 1..Len(engagements) : Exists(engagements[k].candidate_id)

\* ------------------------------------------------------------ screening claims

\* C28: in mock mode a collaborator call is deterministic: two answered mock
\* screenings of the same resume for the same role return the same scores.
C28_MockScreeningDeterministic ==
  \A i, j \in Slots :
    ( /\ reqs[i].op = "screen" /\ reqs[j].op = "screen"
      /\ reqs[i].pc = "done" /\ reqs[j].pc = "done"
      /\ reqs[i].resp = 200 /\ reqs[j].resp = 200
      /\ reqs[i].mode = "mock" /\ reqs[j].mode = "mock"
      /\ reqs[i].role = reqs[j].role /\ reqs[i].resume = reqs[j].resume )
    => reqs[i].result = reqs[j].result

\* The rows screening wrote.
Screened == {c \in DOMAIN candidates : "scores" \in DOMAIN candidates[c]}

\* C30: every candidate row written by screening has its culture, technical
\* and experience scores within 1..5 and its fit score within 0..100.
C30_ScoresInRange ==
  \A c \in Screened :
    LET sc == candidates[c].scores
    IN /\ sc.culture \in 1..5
       /\ sc.technical \in 1..5
       /\ sc.experience \in 1..5
       /\ sc.fit \in 0..100

\* ------------------------------------------------------------ failing and cut sends

\* C21: for a candidate whose sends always fail, after MaxFailures
\* consecutive failures the next send request is answered Dormant at once,
\* without another attempt.
C21_DormantAfterFailures ==
  [][\A i \in Slots :
       ( /\ Free(i)
         /\ reqs'[i] # reqs[i]
         /\ reqs'[i].op = "send"
         /\ Exists(reqs'[i].cand)
         /\ reqs'[i].failures >= MaxFailures )
       => (reqs'[i].pc = "done" /\ reqs'[i].resp # 200)]_vars

\* C26: a send cut short after any of its writes leaves the ledger valid: the
\* candidate has a status of the state machine and at most one outreach
\* record, and when the cut came after the step was written, the `sent`
\* event and the contacted status are there too.
C26_CutSendLeavesLedgerValid ==
  \A i \in Slots :
    (reqs[i].op = "send" /\ reqs[i].cut # "none" /\ Exists(reqs[i].cand))
      => /\ StatusOf(reqs[i].cand) \in Statuses
         /\ Cardinality(OutreachRowsOf(reqs[i].cand)) <= 1
         /\ reqs[i].cut \in {"s_status", "s_event"}
              => /\ HasEvent(reqs[i].cand, "sent")
                 /\ StatusOf(reqs[i].cand) = "contacted"

\* ------------------------------------------------------------ enrichment

\* The candidates a step created.
Created == DOMAIN candidates' \ DOMAIN candidates

\* C31: an enrichment request that is answered success has created exactly
\* one candidate per enriched lead, each owned by the requested role and in
\* status sourced; a request whose collaborator failed, or without role_id or
\* leads array, is answered with an error and creates no candidate.
C31_EnrichCreatesOnePerLead ==
  [][\A i \in Slots :
       (StepOf(i, "enrich") /\ reqs'[i].pc = "done") =>
         LET q == reqs'[i]
         IN /\ (q.role = NoId \/ q.leads = NoLeads) => q.resp \notin {0, 200}
            /\ IF q.resp = 200
                 THEN /\ Cardinality(Created) = q.enriched
                      /\ \A c \in Created :
                           /\ candidates'[c].role_id = q.role
                           /\ candidates'[c].status = "sourced"
                 ELSE /\ q.resp # 0
                      /\ candidates' = candidates]_vars

\* ------------------------------------------------------------ repeated screening

\* Slot j holds an answered, successful screening of resume cv for role r,
\* and a row it wrote is in the table: the candidate exists for the role.
AlreadyScreened(j, r, cv) ==
  /\ reqs[j].op = "screen" /\ reqs[j].pc = "done" /\ reqs[j].resp = 200
  /\ reqs[j].role = r /\ reqs[j].resume = cv
  /\ \E c \in Screened : candidates[c].role_id = r

\* C32: screening a resume for a role in which the candidate already exists
\* updates that row instead of inserting one: a repeated successful
\* screening of the same resume for the same role adds no candidate and
\* leaves the role's candidate count as it was.
C32_RescreenUpdatesRow ==
  [][\A i, j \in Slots :
       ( /\ i # j
         /\ StepOf(i, "screen")
         /\ reqs'[i].pc = "done" /\ reqs'[i].resp = 200
         /\ AlreadyScreened(j, reqs'[i].role, reqs'[i].resume) )
       => /\ DOMAIN candidates' = DOMAIN candidates
          /\ Cardinality({c \in DOMAIN candidates' :
                            candidates'[c].role_id = reqs'[i].role})
               = CountByRole(reqs'[i].role)]_vars

\* ------------------------------------------------------------ scheduling

\* The statuses a meeting is no longer booked from.
PastScheduling == {"offered", "hired", "rejected"}

\* C33: a schedule_meeting request answered success has appended exactly one
\* `scheduled` event, of its candidate, and leaves that candidate screened
\* or interviewing; no step of a schedule_meeting request moves a candidate
\* that is offered, hired or rejected.
C33_ScheduleMovesForward ==
  [][\A i \in Slots :
       StepOf(i, "schedule") =>
         LET q == reqs'[i]
         IN /\ (q.pc = "done" /\ q.resp = 200) =>
                 /\ engagements' =
                      Append(engagements, [candidate_id |-> q.cand, event |-> "scheduled"])
                 /\ q.cand \in DOMAIN candidates'
                 /\ candidates'[q.cand].status \in {"screened", "interviewing"}
            /\ \A c \in Kept :
                 candidates[c].status \in PastScheduling
                   => candidates'[c].status = candidates[c].status]_vars

\* ------------------------------------------------------------ full pipelines

\* What the tables hold of role r: its candidates, their outreach records and
\* engagement events, and its log rows.
CandidatesOf(r) == {c \in DOMAIN candidates : candidates[c].role_id = r}

OfRole(row, r) ==
  row.candidate_id \in DOMAIN candidates /\ candidates[row.candidate_id].role_id = r

LedgerOf(r) ==
  <<[c \in CandidatesOf(r) |-> candidates[c]],
    SelectSeq(outreach, LAMBDA row : OfRole(row, r)),
    SelectSeq(engagements, LAMBDA row : OfRole(row, r)),
    {row \in config : row.role = r}>>

\* C34: for an open role that has at least min_pipeline candidates (so also
\* one whose depth, the candidates not yet hired or rejected, is at least
\* min_pipeline, and every role with min_pipeline 0), no step of a cycle
\* issues a sourcing request or writes anything: the role's candidates,
\* outreach records, engagement events and log rows stay as they are.
C34_FullRoleLeftAlone ==
  [][\A r \in DOMAIN roles :
       (roles[r].status = "open" /\ CountByRole(r) >= roles[r].min_pipeline)
         => /\ LedgerOf(r)' = LedgerOf(r)
            /\ \A k \in 1..Len(daemon'.requested) : daemon'.requested[k].role # r]_vars

\* A cycle is over that counted role 1, which wants two candidates and has
\* two, and role 2, which wants one and has none: it logged role 2 only.
C34_Witness ==
  /\ CycleOver
  /\ roles[1].min_pipeline = 2
  /\ \E k \in 1..Len(daemon.visited) :
       /\ daemon.visited[k].role = 1
       /\ daemon.visited[k].depth = 2
       /\ ~daemon.visited[k].thin
  /\ ~Logged(1)
  /\ Logged(2)

\* ------------------------------------------------------------ termination

\* C35: every cycle terminates with a response to the scheduler, also when
\* the roles query or the count of some role fails: an invocation that has
\* begun always comes to its answer.
C35_CycleTerminates ==
  (daemon.pc # "idle") ~> (daemon.pc = "idle")

\* A cycle has been answered in which the count of role 1, which has fewer
\* candidates than it wants, failed, and role 2 was found thin and logged.
C35_Witness ==
  /\ daemon.pc = "idle"
  /\ CountByRole(1) < roles[1].min_pipeline
  /\ ~Logged(1)
  /\ Logged(2)

\* ------------------------------------------------------------ other candidates

\* The rows of `new` that are not rows of candidate c are the rows of `old`
\* that are not: none changed, none added, none removed.
OthersKept(old, new, c) ==
  /\ Len(new) >= Len(old)
  /\ \A k \in 1..Len(old) : old[k].candidate_id # c => new[k] = old[k]
  /\ \A k \in 1..Len(new) : new[k].candidate_id # c => k <= Len(old)

\* C36: a step of a send_sequence, ingest_webhook or schedule_meeting request
\* for candidate c leaves the status, the outreach records and the
\* engagement events of every other candidate unchanged.
C36_OtherCandidatesUntouched ==
  [][\A i \in Slots :
       (reqs'[i] # reqs[i] /\ reqs'[i].op \in {"send", "ingest", "schedule"}) =>
         LET c == reqs'[i].cand
         IN /\ DOMAIN candidates' = DOMAIN candidates
            /\ \A x \in DOMAIN candidates : x # c => candidates'[x] = candidates[x]
            /\ OthersKept(outreach, outreach', c)
            /\ OthersKept(engagements, engagements', c)]_vars

\* A reply of candidate 1 was ingested and then a send to candidate 2
\* answered: candidate 1 is still interested and its event is in the log.
C36_Witness ==
  /\ DOMAIN candidates = CandPool
  /\ Len(engagements) = 2
  /\ engagements[1] = [candidate_id |-> 1, event |-> "replied"]
  /\ StatusOf(1) = "interested"
  /\ \E i \in Slots :
       /\ reqs[i].op = "send" /\ reqs[i].cand = 2
       /\ reqs[i].pc = "done" /\ reqs[i].resp = 200
  /\ StatusOf(2) = "contacted"
  /\ engagements[2] = [candidate_id |-> 2, event |-> "sent"]

\* ------------------------------------------------------------ concurrent sends

\* The `sent` events of candidate c, one per send that wrote its event.
SentEvents(c) ==
  {e \in 1..Len(engagements) :
     engagements[e] = [candidate_id |-> c, event |-> "sent"]}

SendInFlight(c) ==
  \E i \in Slots : Busy(i) /\ reqs[i].op = "send" /\ reqs[i].cand = c

\* The records that were there from the start, at step 1 with their next
\* send scheduled (a record a send creates has no next_send_at).
Seeded(k) == outreach[k].next_send_at # Null

C38_RowsReferToCandidates ==
  /\ \A k \in 1..Len(engagements) : engagements[k].candidate_id \in DOMAIN candidates
  /\ \A k \in 1..Len(outreach) : outreach[k].candidate_id \in DOMAIN candidates

\* ------------------------------------------------------------ unknown candidates

\* C39: a send request for an identifier of no candidate, or without
\* candidate_id, changes nothing (no outreach record created or advanced, no
\* status changed, no event appended) and is answered with an error.
C39_SendUnknownRejected ==
  [][\A i \in Slots :
       (StepOf(i, "send") /\ ~Exists(reqs'[i].cand)) =>
         /\ UNCHANGED <<candidates, outreach, engagements>>
         /\ reqs'[i].pc = "done" => reqs'[i].resp \in {400, 404}]_vars

\* ------------------------------------------------------------ search results

\* The number of leads a request asks for.
Requested(q) == IF q.leads = NoCount THEN DefaultCount ELSE q.leads

\* C40: the leads one xray_search call returns are de-duplicated, no two with
\* the same public URL, and number at most the requested count (5 when the
\* request names none).
C40_LeadsDistinctAndCapped ==
  \A i \in Slots :
    (reqs[i].op = "xray" /\ reqs[i].pc = "done" /\ reqs[i].resp = 200)
      => /\ \A a, b \in 1..Len(reqs[i].result) :
              a # b => reqs[i].result[a] # reqs[i].result[b]
         /\ Len(reqs[i].result) <= Requested(reqs[i])

====
